---------------------------- MODULE Spec2Model ----------------------------
(***************************************************************************)
(* Loan amortization service (app/main.py): the amortization engine        *)
(* (_compute_monthly_payment, _amortization_state_at_month, the schedule   *)
(* loop of get_loan_schedule) and the HTTP handlers over users, loans and  *)
(* loan shares.                                                            *)
(*                                                                         *)
(* Numbers.  The code computes in decimal.Decimal at precision 28 and      *)
(* realizes money with quantize(0.01, ROUND_HALF_UP).  Here a money value  *)
(* is an integer number of cents and every other Decimal is an exact       *)
(* rational [num, den] in units of one cent or of pure number.  The        *)
(* modelled inputs are loans whose amount is a whole number of cents and   *)
(* whose annual rate gives a monthly rate with a finite decimal expansion, *)
(* so that no Decimal operation of the code rounds except to_cents: on     *)
(* these inputs the rational arithmetic below and the Decimal arithmetic   *)
(* of the code agree digit for digit.                                      *)
(***************************************************************************)
EXTENDS Integers, Sequences, FiniteSets, TLC

VARIABLES
    \* the stored tables and the last HTTP response
    users,                 \* table users: sequence of [id, username, email]
    loans,                 \* table loans: sequence of loan rows
    shares,                \* table loan_shares: rows <<loan_id, user_id>>
    request,               \* the last request received: [op, args]
    response,              \* the response to it
    \* one run of the engine on one loan
    principal,             \* P, in cents
    annual_interest_rate,  \* in percent
    term_months,           \* n
    month,                 \* the month argument of the replay
    pc,                    \* where the run stands
    i,                     \* the loop index: periods 1..i-1 are executed
    monthly_payment,
    remaining,
    total_interest_paid,
    total_principal_paid,
    interest,              \* the interest of the period last executed
    principal_payment,     \* the principal payment of the period last executed
    clamped,               \* the periods in which the clamp cut the payment
    schedule,              \* the rows get_loan_schedule has appended
    summary                \* what the three *_at_month functions return

dbvars == <<users, loans, shares, request, response>>
loanvars == <<principal, annual_interest_rate, term_months>>
runvars == <<month, pc, i, monthly_payment, remaining, total_interest_paid,
             total_principal_paid, interest, principal_payment, clamped,
             schedule, summary>>
vars == <<dbvars, loanvars, runvars>>

\* ------------------------------------------------------------------ bounds
MaxPrincipal == 200   \* largest loan amount of the engine runs, in cents
MaxTerm == 4          \* longest loan term of the engine runs, in months
MaxZeroRateTerm == 6  \* longest term of the zero-rate engine runs, in months
MaxLoans == 1         \* rows the loans table may hold
MaxMonthArg == 3      \* largest month a summary request asks for

\* Annual rates in percent (annual_interest_rate); each divided by 100 and by
\* 12 is an exact decimal: 0, 0.05, 0.1 and 0.5 per month.
Rates == {0, 60, 120, 600}

\* What the requests of the HTTP runs carry.
Usernames == {"alice", "bob"}
Emails == {"alice@example.com", "bob@example.com"}
UserIds == 1..(Cardinality(Usernames) + 1)
LoanIds == 1..(MaxLoans + 1)
LoanAmounts == {1000}
LoanRates == {0, 120}
LoanTerms == {-1, 0, 2}
\* The month query parameter as sent: an integer, missing, or not a number.
MonthParams ==
    {[shape |-> "int", value |-> m] : m \in (-1)..MaxMonthArg}
        \cup {[shape |-> "missing", value |-> 0], [shape |-> "text", value |-> 0]}

\* ------------------------------------------------- exact decimal arithmetic
Abs(x) == IF x < 0 THEN -x ELSE x

RECURSIVE GCD(_, _)
GCD(a, b) == IF b = 0 THEN a ELSE GCD(b, a % b)

\* The Decimal of value n/d, in lowest terms with a positive denominator.
Rat(n, d) ==
    LET s == IF d < 0 THEN -1 ELSE 1
        g == GCD(Abs(n), Abs(d))
    IN  [num |-> (s * n) \div g, den |-> (s * d) \div g]

FromInt(n) == [num |-> n, den |-> 1]

\* Decimal +, -, *, / (exact: see the note on numbers above).  The factors
\* are cancelled crosswise before they are multiplied.
RAdd(x, y) ==
    LET g == GCD(x.den, y.den)
    IN  Rat(x.num * (y.den \div g) + y.num * (x.den \div g), (x.den \div g) * y.den)

RSub(x, y) == RAdd(x, [num |-> -y.num, den |-> y.den])

RMul(x, y) ==
    LET g1 == GCD(Abs(x.num), y.den)
        g2 == GCD(Abs(y.num), x.den)
        h1 == IF g1 = 0 THEN 1 ELSE g1
        h2 == IF g2 = 0 THEN 1 ELSE g2
    IN  Rat((x.num \div h1) * (y.num \div h2), (x.den \div h2) * (y.den \div h1))

RDiv(x, y) == RMul(x, Rat(y.den, y.num))

RECURSIVE RPow(_, _)
RPow(x, n) == IF n = 0 THEN FromInt(1) ELSE RMul(x, RPow(x, n - 1))

\* ------------------------------------------------------------------ engine
\* Mutant of to_cents: ROUND_DOWN in place of ROUND_HALF_UP.
to_cents_round_down(value) ==
    IF value.num >= 0
    THEN value.num \div value.den
    ELSE -((-value.num) \div value.den)

\* _to_cents: value.quantize(Decimal("0.01"), rounding=ROUND_HALF_UP), from a
\* rational number of cents to whole cents; a half rounds away from zero.
to_cents(value) ==
    IF value.num >= 0
    THEN (2 * value.num + value.den) \div (2 * value.den)
    ELSE -((2 * (-value.num) + value.den) \div (2 * value.den))

\* r_monthly = Decimal(str(loan.annual_interest_rate)) / 100 / 12
r_monthly(annual_interest_rate_) ==
    RDiv(RDiv(FromInt(annual_interest_rate_), FromInt(100)), FromInt(12))

\* _compute_monthly_payment(principal, monthly_rate, term_months), in cents.
compute_monthly_payment(principal_, monthly_rate, term_months_) ==
    IF monthly_rate.num = 0
    THEN to_cents(RDiv(FromInt(principal_), FromInt(term_months_)))
    ELSE LET one_plus_r_pow_n == RPow(RAdd(FromInt(1), monthly_rate), term_months_)
             raw_payment ==
                 RDiv(RMul(FromInt(principal_), RMul(monthly_rate, one_plus_r_pow_n)),
                      RSub(one_plus_r_pow_n, FromInt(1)))
         IN  to_cents(raw_payment)

\* Mutant of initial_state: the balance starts at 0 like the two totals.
initial_state_zero_balance(principal_) ==
    [remaining |-> 0, total_interest_paid |-> 0, total_principal_paid |-> 0]

\* The state _amortization_state_at_month starts from: lines 68-70.
initial_state(principal_) ==
    [remaining |-> principal_, total_interest_paid |-> 0, total_principal_paid |-> 0]

\* The interest of one period of _amortization_state_at_month.
period_interest(remaining_, monthly_rate) ==
    IF monthly_rate.num = 0 THEN 0
    ELSE to_cents(RMul(FromInt(remaining_), monthly_rate))

\* Mutant of is_final_period: the test is off by one.
is_final_period_off_by_one(i_, term_months_) == i_ = term_months_ + 1

\* The test of line 83 for the final period.
is_final_period(i_, term_months_) == i_ = term_months_

\* The principal payment of the final period: the whole balance.
final_principal_payment(remaining_) == remaining_

\* Mutant of final_interest: the operands of the subtraction are swapped.
final_interest_swapped(monthly_payment_, principal_payment_) ==
    principal_payment_ - monthly_payment_

\* The interest of the final period, recomputed from the principal payment.
final_interest(monthly_payment_, principal_payment_) ==
    monthly_payment_ - principal_payment_

\* Mutant of clamp: the principal payment is left as computed.
clamp_absent(principal_payment_, remaining_) == principal_payment_

\* The clamp: a principal payment above the remaining balance is cut to it.
clamp(principal_payment_, remaining_) ==
    IF principal_payment_ > remaining_ THEN remaining_ ELSE principal_payment_

\* Mutant of amortization_period: the final period keeps the interest
\* computed from the balance instead of recomputing it from the payment.
amortization_period_interest_kept(st, monthly_payment_, monthly_rate, term_months_, i_) ==
    LET interest0 == period_interest(st.remaining, monthly_rate)
        principal0 == monthly_payment_ - interest0
        principal1 == IF is_final_period(i_, term_months_)
                      THEN final_principal_payment(st.remaining)
                      ELSE principal0
        principal2 == clamp(principal1, st.remaining)
    IN  [remaining |-> st.remaining - principal2,
         total_interest_paid |-> st.total_interest_paid + interest0,
         total_principal_paid |-> st.total_principal_paid + principal2,
         interest |-> interest0,
         principal_payment |-> principal2,
         clamped |-> principal1 > st.remaining]

\* Mutant of amortization_period: the total is increased by the principal
\* payment as it was before the clamp.
amortization_period_total_before_clamp(st, monthly_payment_, monthly_rate, term_months_, i_) ==
    LET interest0 == period_interest(st.remaining, monthly_rate)
        principal0 == monthly_payment_ - interest0
        principal1 == IF is_final_period(i_, term_months_)
                      THEN final_principal_payment(st.remaining)
                      ELSE principal0
        interest1 == IF is_final_period(i_, term_months_)
                     THEN final_interest(monthly_payment_, principal1)
                     ELSE interest0
        principal2 == clamp(principal1, st.remaining)
    IN  [remaining |-> st.remaining - principal2,
         total_interest_paid |-> st.total_interest_paid + interest1,
         total_principal_paid |-> st.total_principal_paid + principal1,
         interest |-> interest1,
         principal_payment |-> principal2,
         clamped |-> principal1 > st.remaining]

\* One iteration i of the loop of _amortization_state_at_month, from the
\* state st = [remaining, total_interest_paid, total_principal_paid].
amortization_period(st, monthly_payment_, monthly_rate, term_months_, i_) ==
    LET interest0 == period_interest(st.remaining, monthly_rate)
        principal0 == monthly_payment_ - interest0
        principal1 == IF is_final_period(i_, term_months_)
                      THEN final_principal_payment(st.remaining)
                      ELSE principal0
        interest1 == IF is_final_period(i_, term_months_)
                     THEN final_interest(monthly_payment_, principal1)
                     ELSE interest0
        principal2 == clamp(principal1, st.remaining)
    IN  [remaining |-> st.remaining - principal2,
         total_interest_paid |-> st.total_interest_paid + interest1,
         total_principal_paid |-> st.total_principal_paid + principal2,
         interest |-> interest1,
         principal_payment |-> principal2,
         clamped |-> principal1 > st.remaining]

\* _amortization_state_at_month(principal, monthly_rate, term_months, month):
\* the fold of the loop over i = 1..month.
RECURSIVE amortization_loop(_, _, _, _, _)
amortization_loop(principal_, monthly_payment_, monthly_rate, term_months_, upto) ==
    IF upto <= 0
    THEN initial_state(principal_)
    ELSE amortization_period(
             amortization_loop(principal_, monthly_payment_, monthly_rate,
                               term_months_, upto - 1),
             monthly_payment_, monthly_rate, term_months_, upto)

amortization_state_at_month(principal_, monthly_rate, term_months_, month_) ==
    amortization_loop(principal_,
                      compute_monthly_payment(principal_, monthly_rate, term_months_),
                      monthly_rate, term_months_, month_)

\* current_principal_balance_at_month, total_principal_paid_at_month and
\* total_interest_paid_at_month: each replays the loan and rounds one field.
current_principal_balance_at_month(principal_, monthly_rate, term_months_, month_) ==
    to_cents(FromInt(
        amortization_state_at_month(principal_, monthly_rate, term_months_, month_).remaining))

total_principal_paid_at_month(principal_, monthly_rate, term_months_, month_) ==
    to_cents(FromInt(
        amortization_state_at_month(principal_, monthly_rate, term_months_, month_).total_principal_paid))

total_interest_paid_at_month(principal_, monthly_rate, term_months_, month_) ==
    to_cents(FromInt(
        amortization_state_at_month(principal_, monthly_rate, term_months_, month_).total_interest_paid))

\* Mutant of schedule_period: the final period is not reconciled.
schedule_period_no_final(remaining_, monthly_payment_, monthly_rate, n, i_) ==
    LET interest0 == IF monthly_rate.num = 0 THEN 0
                     ELSE to_cents(RMul(FromInt(remaining_), monthly_rate))
        principal0 == monthly_payment_ - interest0
        principal2 == IF principal0 > remaining_ THEN remaining_ ELSE principal0
    IN  [remaining |-> remaining_ - principal2,
         interest |-> interest0,
         principal_payment |-> principal2]

\* Mutant of schedule_period: the principal payment is computed as interest
\* minus payment.
schedule_period_sign(remaining_, monthly_payment_, monthly_rate, n, i_) ==
    LET interest0 == IF monthly_rate.num = 0 THEN 0
                     ELSE to_cents(RMul(FromInt(remaining_), monthly_rate))
        principal0 == interest0 - monthly_payment_
        principal1 == IF i_ = n THEN remaining_ ELSE principal0
        interest1 == IF i_ = n THEN monthly_payment_ - principal1 ELSE interest0
        principal2 == IF principal1 > remaining_ THEN remaining_ ELSE principal1
    IN  [remaining |-> remaining_ - principal2,
         interest |-> interest1,
         principal_payment |-> principal2]

\* One iteration i of the loop of get_loan_schedule, which repeats the
\* per-period logic in its own code, from the balance remaining_.
schedule_period(remaining_, monthly_payment_, monthly_rate, n, i_) ==
    LET interest0 == IF monthly_rate.num = 0 THEN 0
                     ELSE to_cents(RMul(FromInt(remaining_), monthly_rate))
        principal0 == monthly_payment_ - interest0
        principal1 == IF i_ = n THEN remaining_ ELSE principal0
        interest1 == IF i_ = n THEN monthly_payment_ - principal1 ELSE interest0
        principal2 == IF principal1 > remaining_ THEN remaining_ ELSE principal1
    IN  [remaining |-> remaining_ - principal2,
         interest |-> interest1,
         principal_payment |-> principal2]

\* Mutant of schedule_item: the months are numbered from 0.
schedule_item_zero_based(i_, remaining_, monthly_payment_) ==
    [month |-> i_ - 1,
     remaining_balance |-> to_cents(FromInt(remaining_)),
     monthly_payment |-> monthly_payment_]

\* schemas.LoanScheduleItem(month, remaining_balance, monthly_payment); the
\* two floats are cent values, held here as cents.
schedule_item(i_, remaining_, monthly_payment_) ==
    [month |-> i_,
     remaining_balance |-> to_cents(FromInt(remaining_)),
     monthly_payment |-> monthly_payment_]

\* An HTTP response: status, error detail, body rows, and how many times
\* the handler entered the engine.
Request(op, args) == [op |-> op, args |-> args]

Reply(op, status_code, detail, body, engine_calls) ==
    [op |-> op, status |-> status_code, detail |-> detail, body |-> body,
     engine_calls |-> engine_calls]

\* ------------------------------------------------------------ idle states
NoSummary == [current_principal_balance |-> 0, total_principal_paid |-> 0,
              total_interest_paid |-> 0]

\* What get_loan_summary reads from the three *_at_month functions once the
\* replay state is (remaining_, total_principal_, total_interest_).
summary_of(remaining_, total_principal_, total_interest_) ==
    [current_principal_balance |-> to_cents(FromInt(remaining_)),
     total_principal_paid |-> to_cents(FromInt(total_principal_)),
     total_interest_paid |-> to_cents(FromInt(total_interest_))]

DbIdle ==
    /\ users = <<>>
    /\ loans = <<>>
    /\ shares = <<>>
    /\ request = Request("none", <<>>)
    /\ response = Reply("none", 0, "", <<>>, 0)

RunIdle ==
    /\ month = 0
    /\ pc = "idle"
    /\ i = 1
    /\ monthly_payment = 0
    /\ remaining = 0
    /\ total_interest_paid = 0
    /\ total_principal_paid = 0
    /\ interest = 0
    /\ principal_payment = 0
    /\ clamped = {}
    /\ schedule = <<>>
    /\ summary = NoSummary

\* ---------------------------------------------------------- HTTP handlers
Range(seq) == {seq[k] : k \in 1..Len(seq)}

UsersById(user_id) == {u \in Range(users) : u.id = user_id}
LoansById(loan_id) == {l \in Range(loans) : l.id = loan_id}
\* loan.shared_users, through the loan_shares table.
shared_user_ids(loan_id) ==
    LET rows == SelectSeq(shares, LAMBDA sh : sh[1] = loan_id)
    IN  [k \in 1..Len(rows) |-> rows[k][2]]

\* share_loan's test `user_to_share in loan.shared_users` (line 233).
already_shared_never(loan_id, user_id) == FALSE

already_shared(loan_id, user_id) ==
    \E k \in 1..Len(shares) : shares[k] = <<loan_id, user_id>>

\* schemas.LoanRead built by get_loan and share_loan.
LoanRead(loan) ==
    [id |-> loan.id, user_id |-> loan.user_id, amount |-> loan.amount,
     annual_interest_rate |-> loan.annual_interest_rate,
     loan_term_in_months |-> loan.loan_term_in_months,
     shared_user_ids |-> shared_user_ids(loan.id)]

\* The rows get_loan_schedule builds for i = 1..upto: lines 279-298.
RECURSIVE schedule_loop(_, _, _, _, _)
schedule_loop(principal_, monthly_payment_, monthly_rate, n, upto) ==
    IF upto <= 0
    THEN [remaining |-> principal_, rows |-> <<>>]
    ELSE LET before == schedule_loop(principal_, monthly_payment_, monthly_rate, n, upto - 1)
             st == schedule_period(before.remaining, monthly_payment_, monthly_rate, n, upto)
         IN  [remaining |-> st.remaining,
              rows |-> Append(before.rows,
                              schedule_item(upto, st.remaining, monthly_payment_))]

\* The query of create_user: the stored users whose username or email is the
\* requested one (lines 126-130).
existing_user_username_only(username, email) ==
    {u \in Range(users) : u.username = username}

existing_user(username, email) ==
    {u \in Range(users) : u.username = username \/ u.email = email}

\* POST /users
CreateUser(username, email) ==
    /\ request' = Request("create_user", <<username, email>>)
    /\ IF existing_user(username, email) # {}
       THEN /\ response' = Reply("create_user", 400, "Username or email already exists",
                                 <<>>, 0)
            /\ users' = users
       ELSE LET db_user == [id |-> Len(users) + 1, username |-> username, email |-> email]
            IN  /\ users' = Append(users, db_user)
                /\ response' = Reply("create_user", 201, "", <<db_user>>, 0)
    /\ UNCHANGED <<loans, shares, loanvars, runvars>>

\* GET /users
ListUsers ==
    /\ request' = Request("list_users", <<>>)
    /\ response' = Reply("list_users", 200, "", users, 0)
    /\ UNCHANGED <<users, loans, shares, loanvars, runvars>>

\* GET /users/{user_id}/loans
ListLoansForUser(user_id) ==
    /\ request' = Request("list_loans_for_user", <<user_id>>)
    /\ IF UsersById(user_id) = {}
       THEN response' = Reply("list_loans_for_user", 404, "User not found", <<>>, 0)
       ELSE response' = Reply("list_loans_for_user", 200, "",
                              SelectSeq(loans, LAMBDA l : l.user_id = user_id), 0)
    /\ UNCHANGED <<users, loans, shares, loanvars, runvars>>

\* Mutant of CreateLoan: the loan is stored without looking up its owner.
CreateLoan_owner_unchecked(user_id, amount, rate, term) ==
    /\ request' = Request("create_loan", <<user_id, amount, rate, term>>)
    /\ Len(loans) < MaxLoans
    /\ LET db_loan == [id |-> Len(loans) + 1, user_id |-> user_id,
                       amount |-> amount, annual_interest_rate |-> rate,
                       loan_term_in_months |-> term]
       IN  /\ loans' = Append(loans, db_loan)
           /\ response' = Reply("create_loan", 201, "", <<db_loan>>, 0)
    /\ UNCHANGED <<users, shares, loanvars, runvars>>

\* POST /loans
CreateLoan(user_id, amount, rate, term) ==
    /\ request' = Request("create_loan", <<user_id, amount, rate, term>>)
    /\ IF UsersById(user_id) = {}
       THEN /\ response' = Reply("create_loan", 404, "User not found", <<>>, 0)
            /\ loans' = loans
       ELSE /\ Len(loans) < MaxLoans
            /\ LET db_loan == [id |-> Len(loans) + 1, user_id |-> user_id,
                               amount |-> amount, annual_interest_rate |-> rate,
                               loan_term_in_months |-> term]
               IN  /\ loans' = Append(loans, db_loan)
                   /\ response' = Reply("create_loan", 201, "", <<db_loan>>, 0)
    /\ UNCHANGED <<users, shares, loanvars, runvars>>

\* GET /loans
ListLoans ==
    /\ request' = Request("list_loans", <<>>)
    /\ response' = Reply("list_loans", 200, "", loans, 0)
    /\ UNCHANGED <<users, loans, shares, loanvars, runvars>>

\* GET /loans/{loan_id}
GetLoan(loan_id) ==
    /\ request' = Request("get_loan", <<loan_id>>)
    /\ IF LoansById(loan_id) = {}
       THEN response' = Reply("get_loan", 404, "Loan not found", <<>>, 0)
       ELSE LET loan == CHOOSE l \in LoansById(loan_id) : TRUE
            IN  response' = Reply("get_loan", 200, "", <<LoanRead(loan)>>, 0)
    /\ UNCHANGED <<users, loans, shares, loanvars, runvars>>

\* POST /loans/{loan_id}/share
ShareLoan(loan_id, user_id) ==
    /\ request' = Request("share_loan", <<loan_id, user_id>>)
    /\ IF LoansById(loan_id) = {}
       THEN /\ response' = Reply("share_loan", 404, "Loan not found", <<>>, 0)
            /\ shares' = shares
       ELSE LET loan == CHOOSE l \in LoansById(loan_id) : TRUE
            IN  IF UsersById(user_id) = {}
                THEN /\ response' = Reply("share_loan", 404,
                                          "User to share with not found", <<>>, 0)
                     /\ shares' = shares
                ELSE IF user_id = loan.user_id
                THEN /\ response' = Reply("share_loan", 400,
                                          "Owner already has access to this loan", <<>>, 0)
                     /\ shares' = shares
                ELSE IF already_shared(loan_id, user_id)
                THEN /\ response' = Reply("share_loan", 400,
                                          "Loan already shared with this user", <<>>, 0)
                     /\ shares' = shares
                ELSE /\ shares' = Append(shares, <<loan_id, user_id>>)
                     /\ response' =
                            Reply("share_loan", 200, "",
                                  <<[LoanRead(loan) EXCEPT !.shared_user_ids =
                                         Append(@, user_id)]>>, 0)
    /\ UNCHANGED <<users, loans, loanvars, runvars>>

\* GET /loans/{loan_id}/schedule
GetLoanSchedule(loan_id) ==
    /\ request' = Request("get_loan_schedule", <<loan_id>>)
    /\ IF LoansById(loan_id) = {}
       THEN response' = Reply("get_loan_schedule", 404, "Loan not found", <<>>, 0)
       ELSE LET loan == CHOOSE l \in LoansById(loan_id) : TRUE
                n == loan.loan_term_in_months
                P == loan.amount
                rate == r_monthly(loan.annual_interest_rate)
            IN  IF n <= 0
                THEN response' = Reply("get_loan_schedule", 400,
                                       "Loan term must be positive", <<>>, 0)
                ELSE response' =
                         Reply("get_loan_schedule", 200, "",
                               schedule_loop(P, compute_monthly_payment(P, rate, n),
                                             rate, n, n).rows, 1)
    /\ UNCHANGED <<users, loans, shares, loanvars, runvars>>

\* Mutant of summary_validation: the month is checked before the term.
summary_validation_month_first(n, m) ==
    IF m < 0 \/ m > n THEN "month must be between 0 and n"
    ELSE IF n <= 0 THEN "Loan term must be positive"
    ELSE ""

\* Mutant of summary_validation: the last month of the term is refused.
summary_validation_last_month_refused(n, m) ==
    IF n <= 0 THEN "Loan term must be positive"
    ELSE IF m < 0 \/ m >= n THEN "month must be between 0 and n"
    ELSE ""

\* The checks get_loan_summary makes on the term n and the month (lines
\* 313-319): the detail of the 400 it raises, or "" when it raises none.
summary_validation(n, m) ==
    IF n <= 0 THEN "Loan term must be positive"
    ELSE IF m < 0 \/ m > n THEN "month must be between 0 and n"
    ELSE ""

\* GET /loans/{loan_id}/summary?month=...  The framework validates the query
\* parameter month: int before the handler runs and answers 422 itself.
GetLoanSummary(loan_id, month_param) ==
    /\ request' = Request("get_loan_summary", <<loan_id, month_param>>)
    /\ IF month_param.shape # "int"
       THEN response' = Reply("get_loan_summary", 422, "validation error", <<>>, 0)
       ELSE IF LoansById(loan_id) = {}
       THEN response' = Reply("get_loan_summary", 404, "Loan not found", <<>>, 0)
       ELSE LET loan == CHOOSE l \in LoansById(loan_id) : TRUE
                n == loan.loan_term_in_months
                m == month_param.value
                P == loan.amount
                rate == r_monthly(loan.annual_interest_rate)
            IN  IF summary_validation(n, m) # ""
                THEN response' = Reply("get_loan_summary", 400,
                                       summary_validation(n, m), <<>>, 0)
                ELSE response' =
                         Reply("get_loan_summary", 200, "",
                               <<[current_principal_balance |->
                                      current_principal_balance_at_month(P, rate, n, m),
                                  total_principal_paid |->
                                      total_principal_paid_at_month(P, rate, n, m),
                                  total_interest_paid |->
                                      total_interest_paid_at_month(P, rate, n, m)]>>, 3)
    /\ UNCHANGED <<users, loans, shares, loanvars, runvars>>

\* The service starts on empty tables; no engine run is tracked here.
Init ==
    /\ DbIdle
    /\ principal = 0
    /\ annual_interest_rate = 0
    /\ term_months = 1
    /\ RunIdle

Next ==
    \/ \E username \in Usernames, email \in Emails : CreateUser(username, email)
    \/ ListUsers
    \/ \E user_id \in UserIds : ListLoansForUser(user_id)
    \/ \E user_id \in UserIds, amount \in LoanAmounts, rate \in LoanRates,
          term \in LoanTerms : CreateLoan(user_id, amount, rate, term)
    \/ ListLoans
    \/ \E loan_id \in LoanIds : GetLoan(loan_id)
    \/ \E loan_id \in LoanIds, user_id \in UserIds : ShareLoan(loan_id, user_id)
    \/ \E loan_id \in LoanIds : GetLoanSchedule(loan_id)
    \/ \E loan_id \in LoanIds, month_param \in MonthParams :
          GetLoanSummary(loan_id, month_param)

Spec == Init /\ [][Next]_vars

\* ------------------------------------------------- the engine, step by step
\* The loans the engine is run on: what the handlers pass it (n >= 1).
EngineInit ==
    /\ DbIdle
    /\ RunIdle
    /\ principal \in 0..MaxPrincipal
    /\ \/ /\ annual_interest_rate \in Rates
          /\ term_months \in 1..MaxTerm
       \/ /\ annual_interest_rate = 0
          /\ term_months \in (MaxTerm + 1)..MaxZeroRateTerm

\* _amortization_state_at_month is entered with month m (0 <= m <= n, as
\* get_loan_summary guarantees): lines 66-73.
AmortizationCall(m) ==
    /\ pc = "idle"
    /\ month' = m
    /\ monthly_payment' =
           compute_monthly_payment(principal, r_monthly(annual_interest_rate), term_months)
    /\ LET st == initial_state(principal)
       IN  /\ remaining' = st.remaining
           /\ total_interest_paid' = st.total_interest_paid
           /\ total_principal_paid' = st.total_principal_paid
           /\ IF m <= 0
              THEN /\ pc' = "returned"
                   /\ summary' = summary_of(st.remaining, st.total_principal_paid,
                                            st.total_interest_paid)
              ELSE /\ pc' = "loop"
                   /\ summary' = summary
    /\ i' = 1
    /\ UNCHANGED <<interest, principal_payment, clamped, schedule>>
    /\ UNCHANGED <<dbvars, loanvars>>

\* One iteration of for i in range(1, month + 1): lines 75-92.
AmortizationPeriod ==
    /\ pc = "loop"
    /\ i <= month
    /\ LET st == amortization_period(
                     [remaining |-> remaining,
                      total_interest_paid |-> total_interest_paid,
                      total_principal_paid |-> total_principal_paid],
                     monthly_payment, r_monthly(annual_interest_rate), term_months, i)
       IN  /\ remaining' = st.remaining
           /\ total_interest_paid' = st.total_interest_paid
           /\ total_principal_paid' = st.total_principal_paid
           /\ interest' = st.interest
           /\ principal_payment' = st.principal_payment
           /\ clamped' = IF st.clamped THEN clamped \cup {i} ELSE clamped
    /\ i' = i + 1
    /\ UNCHANGED <<month, pc, monthly_payment, schedule, summary>>
    /\ UNCHANGED <<dbvars, loanvars>>

\* The loop is exhausted: line 94, and the rounding of lines 102, 110, 118.
AmortizationReturn ==
    /\ pc = "loop"
    /\ i > month
    /\ pc' = "returned"
    /\ summary' = summary_of(remaining, total_principal_paid, total_interest_paid)
    /\ UNCHANGED <<month, i, monthly_payment, remaining, total_interest_paid,
                   total_principal_paid, interest, principal_payment, clamped,
                   schedule>>
    /\ UNCHANGED <<dbvars, loanvars>>

\* get_loan_schedule from the payment computation on: lines 267-280.
ScheduleCall ==
    /\ pc = "idle"
    /\ monthly_payment' =
           compute_monthly_payment(principal, r_monthly(annual_interest_rate), term_months)
    /\ remaining' = principal
    /\ schedule' = <<>>
    /\ pc' = "schedule"
    /\ i' = 1
    /\ UNCHANGED <<month, total_interest_paid, total_principal_paid, interest,
                   principal_payment, clamped, summary>>
    /\ UNCHANGED <<dbvars, loanvars>>

\* One iteration of for i in range(1, n + 1): lines 282-298.
SchedulePeriod ==
    /\ pc = "schedule"
    /\ i <= term_months
    /\ LET st == schedule_period(remaining, monthly_payment,
                                 r_monthly(annual_interest_rate), term_months, i)
       IN  /\ remaining' = st.remaining
           /\ interest' = st.interest
           /\ principal_payment' = st.principal_payment
           /\ schedule' = Append(schedule,
                                 schedule_item(i, st.remaining, monthly_payment))
    /\ i' = i + 1
    /\ UNCHANGED <<month, pc, monthly_payment, total_interest_paid,
                   total_principal_paid, clamped, summary>>
    /\ UNCHANGED <<dbvars, loanvars>>

\* The schedule loop is exhausted: line 301.
ScheduleReturn ==
    /\ pc = "schedule"
    /\ i > term_months
    /\ pc' = "scheduled"
    /\ UNCHANGED <<month, i, monthly_payment, remaining, total_interest_paid,
                   total_principal_paid, interest, principal_payment, clamped,
                   schedule, summary>>
    /\ UNCHANGED <<dbvars, loanvars>>

EngineNext ==
    \/ \E m \in 0..term_months : AmortizationCall(m)
    \/ AmortizationPeriod
    \/ AmortizationReturn
    \/ ScheduleCall
    \/ SchedulePeriod
    \/ ScheduleReturn

EngineSpec == EngineInit /\ [][EngineNext]_vars

\* ------------------------------------------------------------ engine claims
Returned == pc = "returned"
AtMaturity == pc = "returned" /\ month = term_months
Min(a, b) == IF a <= b THEN a ELSE b

\* C1  Principal conservation: for every loan and every month k in 0..n the
\* replay result has total_principal_paid(k) + current_principal_balance(k)
\* equal to the principal, to the cent, also when the clamp or the
\* final-period reconciliation fired.
PrincipalConservation ==
    Returned =>
        summary.total_principal_paid + summary.current_principal_balance = principal

\* C1 witness: a replay through the final period in which the clamp fired.
PrincipalConservationWitness ==
    AtMaturity /\ clamped # {} /\ principal > 0 /\ summary.total_principal_paid > 0

\* C2  Payoff at maturity: the replay through month n returns a balance of 0
\* and a total principal paid equal to the principal, and the last row of
\* the schedule has remaining_balance 0.
PayoffAtMaturity ==
    /\ AtMaturity =>
           /\ summary.current_principal_balance = 0
           /\ summary.total_principal_paid = principal
    /\ pc = "scheduled" =>
           /\ Len(schedule) >= 1
           /\ schedule[Len(schedule)].remaining_balance = 0

\* C2 witness: a loan of several periods replayed to maturity, whose balance
\* before the final period was not yet 0.
PayoffAtMaturityWitness ==
    AtMaturity /\ term_months > 1 /\ principal_payment > 0 /\ annual_interest_rate > 0

\* C3 as claimed: n x monthly_payment equals the sum over the n periods of
\* principal payment plus interest, that is principal + total_interest_paid(n).
PaymentConsistency ==
    AtMaturity =>
        /\ term_months * monthly_payment =
               summary.total_principal_paid + summary.total_interest_paid
        /\ term_months * monthly_payment = principal + summary.total_interest_paid

\* C3 as amended: the sum over the n periods of principal payment plus
\* interest, which is principal + total_interest_paid(n), is at most
\* n x monthly_payment, and equals it exactly when the clamp fired in no
\* period.
PaymentConsistencyUpToClamp ==
    AtMaturity =>
        /\ summary.total_principal_paid + summary.total_interest_paid =
               principal + summary.total_interest_paid
        /\ principal + summary.total_interest_paid <= term_months * monthly_payment
        /\ (principal + summary.total_interest_paid = term_months * monthly_payment)
               <=> (clamped = {})

\* C3 witness: a replay to maturity in which the clamp fired before the final
\* period, so that the borrower paid less than n payments.
PaymentConsistencyWitness ==
    /\ AtMaturity
    /\ clamped # {}
    /\ principal + summary.total_interest_paid < term_months * monthly_payment

\* C4 as claimed: on a zero-rate loan the interest of every period is 0 and
\* total_interest_paid(k) is 0 for every k in 0..n, the final period included.
ZeroRateNoInterest ==
    (annual_interest_rate = 0 /\ pc \in {"loop", "returned"}) =>
        /\ interest = 0
        /\ total_interest_paid = 0
        /\ summary.total_interest_paid = 0

\* C5 as claimed: on a zero-rate loan, for k < n, total_principal_paid(k) is
\* k x monthly_payment and the balance is principal - k x monthly_payment,
\* where monthly_payment is principal / n rounded half up to the cent.
ZeroRateLinear ==
    (annual_interest_rate = 0 /\ Returned /\ month < term_months) =>
        /\ 2 * term_months * monthly_payment - term_months <= 2 * principal
        /\ 2 * principal < 2 * term_months * monthly_payment + term_months
        /\ summary.total_principal_paid = month * monthly_payment
        /\ summary.current_principal_balance = principal - month * monthly_payment

\* C5 as amended: on a zero-rate loan, for k < n, total_principal_paid(k) is
\* the smaller of k x monthly_payment and the principal, and the balance is
\* the principal less that, where monthly_payment is principal / n rounded
\* half up to the cent.
ZeroRateLinearUpToClamp ==
    (annual_interest_rate = 0 /\ Returned /\ month < term_months) =>
        /\ 2 * term_months * monthly_payment - term_months <= 2 * principal
        /\ 2 * principal < 2 * term_months * monthly_payment + term_months
        /\ summary.total_principal_paid = Min(month * monthly_payment, principal)
        /\ summary.current_principal_balance =
               principal - Min(month * monthly_payment, principal)

\* C5 witness: a zero-rate replay short of maturity in which the principal
\* was used up before k payments were made in full.
ZeroRateLinearWitness ==
    /\ annual_interest_rate = 0
    /\ Returned
    /\ month < term_months
    /\ month * monthly_payment > principal
    /\ principal > 0

\* C6  Monotone schedule: the remaining_balance of the schedule never
\* increases from one month to the next, and the first is at most the
\* principal.
MonotoneSchedule ==
    \A j \in 1..Len(schedule) :
        schedule[j].remaining_balance <=
            (IF j = 1 THEN principal ELSE schedule[j - 1].remaining_balance)

\* C6 witness: a complete schedule of three or more rows whose balance fell.
MonotoneScheduleWitness ==
    /\ pc = "scheduled"
    /\ Len(schedule) >= 3
    /\ schedule[2].remaining_balance < schedule[1].remaining_balance
    /\ schedule[1].remaining_balance < principal

\* C7  Schedule shape: the schedule of a loan of term n has exactly n rows,
\* the i-th with month i, and every row carries the payment that
\* _compute_monthly_payment gives for the loan.
ScheduleShape ==
    /\ pc = "schedule" => Len(schedule) = i - 1
    /\ pc = "scheduled" => Len(schedule) = term_months
    /\ \A j \in 1..Len(schedule) :
           /\ schedule[j].month = j
           /\ schedule[j].monthly_payment =
                  compute_monthly_payment(principal, r_monthly(annual_interest_rate),
                                          term_months)

\* C7 witness: a complete schedule of the longest term with a payment above 0.
ScheduleShapeWitness ==
    /\ pc = "scheduled"
    /\ Len(schedule) = MaxTerm
    /\ schedule[MaxTerm].monthly_payment > 0

\* C10  Month 0: the replay with month 0 returns the principal as balance and
\* 0 as both totals, and executes no period of the loop.
InitialStateAtMonthZero ==
    (Returned /\ month = 0) =>
        /\ summary.current_principal_balance = principal
        /\ summary.total_principal_paid = 0
        /\ summary.total_interest_paid = 0
        /\ i = 1
        /\ clamped = {}
        /\ interest = 0
        /\ principal_payment = 0

\* C10 witness: a replay with month 0 of a loan with a positive principal.
InitialStateAtMonthZeroWitness ==
    Returned /\ month = 0 /\ principal > 0 /\ monthly_payment > 0

\* -------------------------------------------------------------- HTTP claims
\* The loan a schedule or summary request names, when it is stored.
RequestedLoans == LoansById(request.args[1])

\* C8  InvalidTerm: a loan with a term <= 0 is created like any other, and
\* every schedule request and every summary request for it, whatever its
\* integer month, is rejected with the 400 for a non-positive term, before
\* the engine is entered and never with the month-range error.
InvalidTerm ==
    /\ (request.op = "create_loan" /\ UsersById(request.args[1]) # {}) =>
           /\ response.status = 201
           /\ response.body[1].loan_term_in_months = request.args[4]
           /\ response.body[1] \in Range(loans)
    /\ \A loan \in (IF request.op \in {"get_loan_schedule", "get_loan_summary"}
                     THEN RequestedLoans ELSE {}) :
           (/\ loan.loan_term_in_months <= 0
            /\ request.op = "get_loan_summary" => request.args[2].shape = "int")
           => /\ response.status = 400
              /\ response.detail = "Loan term must be positive"
              /\ response.engine_calls = 0
              /\ response.body = <<>>

\* C8 witness: a summary request for month 0 on a stored loan of term <= 0.
InvalidTermWitness ==
    /\ request.op = "get_loan_summary"
    /\ request.args[2] = [shape |-> "int", value |-> 0]
    /\ \E loan \in RequestedLoans : loan.loan_term_in_months < 0
    /\ response.status = 400

\* C9  MonthOutOfRange: a summary request for a loan of term n >= 1 with an
\* integer month m succeeds exactly when 0 <= m <= n and is otherwise
\* rejected with the 400 of the month range; a missing or non-integer month
\* is answered 422, a different error.
MonthOutOfRange ==
    request.op = "get_loan_summary" =>
        /\ request.args[2].shape # "int" => response.status = 422
        /\ \A loan \in RequestedLoans :
               (request.args[2].shape = "int" /\ loan.loan_term_in_months >= 1) =>
                   LET m == request.args[2].value
                       in_range == 0 <= m /\ m <= loan.loan_term_in_months
                   IN  /\ (response.status = 200) <=> in_range
                       /\ ~in_range =>
                              /\ response.status = 400
                              /\ response.detail = "month must be between 0 and n"
                              /\ response.engine_calls = 0

\* C9 witness: a summary request for the month after the last of a loan of
\* term n >= 1, rejected.
MonthOutOfRangeWitness ==
    /\ request.op = "get_loan_summary"
    /\ request.args[2].shape = "int"
    /\ \E loan \in RequestedLoans :
           /\ loan.loan_term_in_months >= 1
           /\ request.args[2].value = loan.loan_term_in_months + 1
    /\ response.status = 400

\* C11  UserUniqueness: no two stored users share a username and no two
\* share an email; a create_user whose username or email is a stored user's
\* is answered 400 and leaves the users as they were, any other is answered
\* 201 and appends exactly that user; nothing else changes the users, and
\* list_users returns exactly the stored (successfully created) users.
UserUniqueness ==
    /\ [](\A a, b \in 1..Len(users) :
              a # b => /\ users[a].username # users[b].username
                       /\ users[a].email # users[b].email)
    /\ [][/\ request'.op = "create_user" =>
                 LET username == request'.args[1]
                     email == request'.args[2]
                 IN  IF \E u \in Range(users) :
                            u.username = username \/ u.email = email
                     THEN /\ response'.status = 400
                          /\ users' = users
                     ELSE /\ response'.status = 201
                          /\ Len(users') = Len(users) + 1
                          /\ SubSeq(users', 1, Len(users)) = users
                          /\ users'[Len(users')].username = username
                          /\ users'[Len(users')].email = email
                          /\ response'.body = <<users'[Len(users')]>>
          /\ users' # users =>
                 request'.op = "create_user" /\ response'.status = 201
          /\ request'.op = "list_users" =>
                 /\ response'.status = 200
                 /\ response'.body = users
                 /\ users' = users]_vars

\* C11 witness: with one user stored, a create_user that reuses the stored
\* username under an email nobody has was answered 400.
UserUniquenessWitness ==
    /\ request.op = "create_user"
    /\ response.status = 400
    /\ Len(users) = 1
    /\ \E u \in Range(users) : u.username = request.args[1]
    /\ \A u \in Range(users) : u.email # request.args[2]

\* C12  SharingInvariant: the users a loan is shared with never include its
\* owner and never the same user twice; a share_loan for a stored loan and a
\* stored user is answered 400 and leaves the shares as they were when the
\* user is the owner or already shared, and is otherwise answered 200, adds
\* exactly that one row and returns the loan with that user added.
SharingInvariant ==
    /\ [](/\ \A a, b \in 1..Len(shares) : a # b => shares[a] # shares[b]
          /\ \A loan \in Range(loans) :
                 loan.user_id \notin Range(shared_user_ids(loan.id)))
    /\ [][request'.op = "share_loan" =>
              LET loan_id == request'.args[1]
                  user_id == request'.args[2]
              IN  \A loan \in LoansById(loan_id) :
                      UsersById(user_id) # {} =>
                          IF \/ user_id = loan.user_id
                             \/ user_id \in Range(shared_user_ids(loan_id))
                          THEN /\ response'.status = 400
                               /\ shares' = shares
                          ELSE /\ response'.status = 200
                               /\ shares' = Append(shares, <<loan_id, user_id>>)
                               /\ Range(response'.body[1].shared_user_ids) =
                                      Range(shared_user_ids(loan_id)) \cup {user_id}]_vars

\* C12 witness: a loan is shared with one user, who is not its owner, and a
\* second share_loan naming that user was answered 400.
SharingInvariantWitness ==
    /\ request.op = "share_loan"
    /\ response.status = 400
    /\ \E loan \in RequestedLoans :
           /\ request.args[2] # loan.user_id
           /\ shared_user_ids(loan.id) = <<request.args[2]>>

\* A step that executes one period of the replay loop or of the schedule loop.
PeriodStep == pc \in {"loop", "schedule"} /\ i' = i + 1

\* C13  NoNegativeBalance: during and after the replay and the schedule loop
\* the balance stays between 0 and the principal, and so does every balance
\* returned in a summary or a schedule row; in every period in which the
\* payment less the period's interest exceeds the balance carried in, the
\* principal payment is that balance and the balance becomes 0.
NoNegativeBalance ==
    /\ [](/\ pc # "idle" => 0 <= remaining /\ remaining <= principal
          /\ Returned => /\ 0 <= summary.current_principal_balance
                         /\ summary.current_principal_balance <= principal
          /\ \A row \in Range(schedule) :
                 0 <= row.remaining_balance /\ row.remaining_balance <= principal)
    /\ [][PeriodStep =>
              LET due == monthly_payment
                         - period_interest(remaining, r_monthly(annual_interest_rate))
              IN  /\ remaining' = remaining - principal_payment'
                  /\ due > remaining =>
                         /\ principal_payment' = remaining
                         /\ remaining' = 0]_vars

\* C13 witness: the replay has just executed a period before the final one
\* in which the clamp fired on a loan with a positive principal.
NoNegativeBalanceWitness ==
    /\ pc = "loop"
    /\ principal > 0
    /\ i - 1 < term_months
    /\ (i - 1) \in clamped
    /\ principal_payment > 0
    /\ principal_payment < monthly_payment
    /\ remaining = 0

\* C14  FinalPeriodReconciliation: when the replay executes period
\* i = term_months, the principal payment is the whole balance carried into
\* the period and the interest is the payment less that principal payment,
\* so payment = principal payment + interest exactly; the clamp does not
\* fire in that period and the balance becomes 0.
FinalPeriodReconciliation ==
    [][(pc = "loop" /\ i = term_months /\ i' = i + 1) =>
           /\ principal_payment' = remaining
           /\ interest' = monthly_payment - principal_payment'
           /\ monthly_payment = principal_payment' + interest'
           /\ term_months \notin clamped'
           /\ remaining' = 0]_vars

\* C14 witness: the replay has executed the final period of a loan of more
\* than one period at a positive rate, and the reconciled interest differs
\* from the interest computed from the balance carried into the period.
FinalPeriodReconciliationWitness ==
    /\ pc = "loop"
    /\ i = term_months + 1
    /\ term_months > 1
    /\ annual_interest_rate > 0
    /\ remaining = 0
    /\ principal_payment > 0
    /\ interest # period_interest(principal_payment, r_monthly(annual_interest_rate))

\* C15  ScheduleReplayAgreement: every row the schedule loop has produced
\* carries, for its month j, the balance current_principal_balance_at_month
\* returns for month j of the same loan, and the monthly payment the replay
\* computes for that loan.
ScheduleReplayAgreement ==
    pc \in {"schedule", "scheduled"} =>
        \A j \in 1..Len(schedule) :
            /\ schedule[j].remaining_balance =
                   current_principal_balance_at_month(
                       principal, r_monthly(annual_interest_rate), term_months, j)
            /\ schedule[j].monthly_payment =
                   compute_monthly_payment(
                       principal, r_monthly(annual_interest_rate), term_months)

\* C15 witness: a complete schedule of a loan of MaxTerm periods at a
\* positive rate whose balance is positive before the final period.
ScheduleReplayAgreementWitness ==
    /\ pc = "scheduled"
    /\ annual_interest_rate > 0
    /\ term_months = MaxTerm
    /\ Len(schedule) = term_months
    /\ schedule[term_months - 1].remaining_balance > 0
    /\ schedule[term_months].remaining_balance = 0

\* C16  NonNegativeInterest: the interest realized in every period the
\* replay has executed, the final reconciled period included, is >= 0, and
\* so is the total interest paid, raw and as returned in the summary.
NonNegativeInterest ==
    /\ (pc \in {"loop", "returned"} /\ i > 1) => interest >= 0
    /\ pc \in {"loop", "returned"} => total_interest_paid >= 0
    /\ Returned => summary.total_interest_paid >= 0

\* The requests that only read.
ReadOps == {"list_users", "list_loans_for_user", "list_loans", "get_loan",
            "get_loan_schedule", "get_loan_summary"}

\* C17  ReferentialIntegrity: every stored loan's user_id and both ids of
\* every share row name stored rows; a create_loan naming a user that is not
\* stored, and a share_loan naming a loan or a user that is not stored, is
\* answered 404 and leaves users, loans and shares as they were; a read
\* request (list, get, schedule, summary) leaves them as they were too.
ReferentialIntegrity ==
    /\ [](/\ \A loan \in Range(loans) : UsersById(loan.user_id) # {}
          /\ \A k \in 1..Len(shares) : /\ LoansById(shares[k][1]) # {}
                                       /\ UsersById(shares[k][2]) # {})
    /\ [][/\ (request'.op = "create_loan" /\ UsersById(request'.args[1]) = {}) =>
                 /\ response'.status = 404
                 /\ UNCHANGED <<users, loans, shares>>
          /\ (/\ request'.op = "share_loan"
              /\ \/ LoansById(request'.args[1]) = {}
                 \/ UsersById(request'.args[2]) = {}) =>
                 /\ response'.status = 404
                 /\ UNCHANGED <<users, loans, shares>>
          /\ request'.op \in ReadOps => UNCHANGED <<users, loans, shares>>]_vars

\* C17 witness: with a user stored and no loan, a create_loan naming a user
\* id that is not stored was answered 404.
ReferentialIntegrityWitness ==
    /\ request.op = "create_loan"
    /\ response.status = 404
    /\ users # <<>>
    /\ UsersById(request.args[1]) = {}
    /\ loans = <<>>

=============================================================================
